---- MODULE Spec2Model ----
(***************************************************************************)
(* Model of bot_assistant.py: the field validators, Record, AddressBook,   *)
(* the input_error decorator, the seven command handlers, parse_input and  *)
(* the main loop.                                                          *)
(*                                                                         *)
(* A Python str is a sequence of one-character strings.  The alphabet of   *)
(* the model is the ASCII characters that occur in the inputs below plus   *)
(* one non-ASCII character, SUP2 (U+00B2 SUPERSCRIPT TWO), for which       *)
(* str.isdigit() is True although it is no decimal digit.  A fixed message *)
(* of the program (a literal of the source) is kept as a single piece,     *)
(* Lit("Contact added."); a computed text is the concatenation of its      *)
(* pieces.                                                                 *)
(***************************************************************************)
EXTENDS Integers, Sequences, FiniteSets, TLC

VARIABLES
    book,      \* AddressBook.data: the records in insertion order
    out,       \* the string the last command printed / the last call returned
    line,      \* the last line read by main()
    last,      \* the last operation: [op |-> command or method, args |-> its arguments]
    today,     \* the date datetime.today() gave the last get_upcoming_birthdays
    ret,       \* the value (or exception) of the last get_upcoming_birthdays
    status,    \* "run", "exited" (close/exit) or "crashed" (an exception left a handler)
    added      \* history: per name, the phones its add commands stored, while only add touched it

vars == <<book, out, line, last, today, ret, status, added>>

----------------------------------------------------------------------------
(* Bounds of the model *)

\* add stores a phone only while the record holds fewer than MaxPhones
MaxPhones == 2
\* the years datetime.today() is drawn from run from YearLo to YearLo + YearSpan
YearSpan == 1

YearLo == 2023

----------------------------------------------------------------------------
(* Strings *)

SUP2 == "^2"
NL == "\n"
Lit(s) == <<s>>

AsciiDigits == {"0", "1", "2", "3", "4", "5", "6", "7", "8", "9"}
DigitSeq == <<"0", "1", "2", "3", "4", "5", "6", "7", "8", "9">>
UpperSeq == <<"A", "B", "C", "D", "E", "F", "G", "H", "I", "J", "K", "L", "M",
              "N", "O", "P", "Q", "R", "S", "T", "U", "V", "W", "X", "Y", "Z">>
LowerSeq == <<"a", "b", "c", "d", "e", "f", "g", "h", "i", "j", "k", "l", "m",
              "n", "o", "p", "q", "r", "s", "t", "u", "v", "w", "x", "y", "z">>
Whitespace == {" ", "\t", NL}

\* str.isdigit() of one character: the decimal digits and the other characters
\* of Unicode property Numeric_Type=Digit, here SUP2
char_isdigit(c) == c \in AsciiDigits \cup {SUP2}

\* str.isdigit(): every character is a digit and there is at least one
isdigit(s) == Len(s) > 0 /\ \A i \in 1..Len(s) : char_isdigit(s[i])

char_lower(c) ==
    IF \E i \in 1..Len(UpperSeq) : UpperSeq[i] = c
    THEN LowerSeq[CHOOSE i \in 1..Len(UpperSeq) : UpperSeq[i] = c]
    ELSE c

\* str.lower()
lower(s) == <<>> \o [i \in 1..Len(s) |-> char_lower(s[i])]

RECURSIVE lstrip(_)
lstrip(s) == IF s # <<>> /\ Head(s) \in Whitespace THEN lstrip(Tail(s)) ELSE s

RECURSIVE rstrip(_)
rstrip(s) ==
    IF s # <<>> /\ s[Len(s)] \in Whitespace THEN rstrip(SubSeq(s, 1, Len(s) - 1)) ELSE s

\* str.strip()
strip(s) == rstrip(lstrip(s))

\* str.split(" ", 1): cut at the first space, if there is one
split_at(s, i) == <<SubSeq(s, 1, i - 1), SubSeq(s, i + 1, Len(s))>>

split_space_1(s) ==
    IF \E i \in 1..Len(s) : s[i] = " "
    THEN split_at(s, CHOOSE k \in 1..Len(s) : s[k] = " " /\ \A j \in 1..(k - 1) : s[j] # " ")
    ELSE <<s>>

\* the length of the first run of non-whitespace characters of t
token_len(t) ==
    IF \E i \in 1..Len(t) : t[i] \in Whitespace
    THEN (CHOOSE k \in 1..Len(t) :
              t[k] \in Whitespace /\ \A j \in 1..(k - 1) : t[j] \notin Whitespace) - 1
    ELSE Len(t)

\* str.split(): the maximal runs of non-whitespace characters
RECURSIVE split_ws(_)
split_tokens(t, n) == <<SubSeq(t, 1, n)>> \o split_ws(SubSeq(t, n + 1, Len(t)))

split_ws(s) == IF lstrip(s) = <<>> THEN <<>> ELSE split_tokens(lstrip(s), token_len(lstrip(s)))

\* sep.join(items)
RECURSIVE join(_, _)
join(sep, items) ==
    IF items = <<>> THEN <<>>
    ELSE IF Len(items) = 1 THEN items[1]
    ELSE items[1] \o sep \o join(sep, Tail(items))

----------------------------------------------------------------------------
(* datetime.date: a date is <<year, month, day>> *)

NoDate == <<0, 0, 0>>

IsLeap(y) == y % 4 = 0 /\ (y % 100 # 0 \/ y % 400 = 0)

DaysInMonth(y, m) ==
    IF m = 2 THEN (IF IsLeap(y) THEN 29 ELSE 28)
    ELSE IF m \in {4, 6, 9, 11} THEN 30 ELSE 31

IsDate(y, m, d) == y \in 1..9999 /\ m \in 1..12 /\ d \in 1..DaysInMonth(y, m)

days_before_year(y) == (y - 1) * 365 + (y - 1) \div 4 - (y - 1) \div 100 + (y - 1) \div 400

RECURSIVE days_before_month(_, _)
days_before_month(y, m) ==
    IF m = 1 THEN 0 ELSE days_before_month(y, m - 1) + DaysInMonth(y, m - 1)

\* date.toordinal(): 0001-01-01 is day 1
toordinal(dt) == days_before_year(dt[1]) + days_before_month(dt[1], dt[2]) + dt[3]

\* date.weekday(): Monday is 0, Sunday is 6
weekday(dt) == (toordinal(dt) + 6) % 7

\* date + timedelta(days=n), for 0 <= n <= 28: the date n days after dt
date_add(dt, n) ==
    IF dt[3] + n <= DaysInMonth(dt[1], dt[2]) THEN <<dt[1], dt[2], dt[3] + n>>
    ELSE IF dt[2] < 12 THEN <<dt[1], dt[2] + 1, dt[3] + n - DaysInMonth(dt[1], dt[2])>>
    ELSE <<dt[1] + 1, 1, dt[3] + n - 31>>

\* date.replace(year=y): ValueError when the day does not exist in year y
date_replace_year(dt, y) ==
    IF IsDate(y, dt[2], dt[3])
    THEN [exc |-> "", msg |-> <<>>, val |-> <<y, dt[2], dt[3]>>]
    ELSE [exc |-> "ValueError", msg |-> Lit("day is out of range for month"), val |-> NoDate]

DigitVal(c) == (CHOOSE i \in 1..10 : DigitSeq[i] = c) - 1

RECURSIVE digits_value(_)
digits_value(t) ==
    IF t = <<>> THEN 0 ELSE 10 * digits_value(SubSeq(t, 1, Len(t) - 1)) + DigitVal(t[Len(t)])

\* int() of a string of digits, blanks around them skipped
int(s) == digits_value(strip(s))

\* _strptime's regular expressions of %d, %m and %Y
match_d(f) ==
    \/ Len(f) = 2 /\ f[1] = "3" /\ f[2] \in {"0", "1"}
    \/ Len(f) = 2 /\ f[1] \in {"1", "2"} /\ f[2] \in AsciiDigits
    \/ Len(f) = 2 /\ f[1] \in {"0", " "} /\ f[2] \in AsciiDigits \ {"0"}
    \/ Len(f) = 1 /\ f[1] \in AsciiDigits \ {"0"}

match_m(f) ==
    \/ Len(f) = 2 /\ f[1] = "1" /\ f[2] \in {"0", "1", "2"}
    \/ Len(f) = 2 /\ f[1] = "0" /\ f[2] \in AsciiDigits \ {"0"}
    \/ Len(f) = 1 /\ f[1] \in AsciiDigits \ {"0"}

match_Y(f) == Len(f) = 4 /\ \A i \in 1..4 : f[i] \in AsciiDigits

\* the ways to cut value into <d>.<m>.<Y>: the lengths of <d> and <m>
strptime_cuts(value) ==
    {c \in {1, 2} \X {1, 2} :
        /\ Len(value) = c[1] + c[2] + 6
        /\ value[c[1] + 1] = "."
        /\ value[c[1] + c[2] + 2] = "."
        /\ match_d(SubSeq(value, 1, c[1]))
        /\ match_m(SubSeq(value, c[1] + 2, c[1] + c[2] + 1))
        /\ match_Y(SubSeq(value, c[1] + c[2] + 3, Len(value)))}

\* datetime(y, m, d): ValueError unless it is a date of the calendar
make_date(y, m, d) ==
    IF IsDate(y, m, d) THEN [exc |-> "", val |-> <<y, m, d>>]
    ELSE [exc |-> "ValueError", val |-> NoDate]

strptime_fields(value, c) ==
    make_date(int(SubSeq(value, c[1] + c[2] + 3, Len(value))),
              int(SubSeq(value, c[1] + 2, c[1] + c[2] + 1)),
              int(SubSeq(value, 1, c[1])))

\* datetime.strptime(value, "%d.%m.%Y").date(): the whole string must match
\* <d>.<m>.<Y>, and the fields must be a date of the calendar
strptime(value) ==
    IF strptime_cuts(value) = {} THEN [exc |-> "ValueError", val |-> NoDate]
    ELSE strptime_fields(value, CHOOSE c \in strptime_cuts(value) : TRUE)

zero_pad(n, width) ==
    <<>> \o [i \in 1..width |-> DigitSeq[((n \div (10 ^ (width - i))) % 10) + 1]]

\* date.strftime("%d.%m.%Y")
strftime(dt) == zero_pad(dt[3], 2) \o <<".">> \o zero_pad(dt[2], 2) \o <<".">> \o zero_pad(dt[1], 4)

----------------------------------------------------------------------------
(* Fields.  A call that may raise gives [exc, msg, ...]: exc is "" on a    *)
(* normal return and the exception's class otherwise, msg its message.     *)

\* Name.__init__
Name(value) ==
    IF value = <<>> THEN [exc |-> "ValueError", msg |-> Lit("Name can't be empty")]
    ELSE [exc |-> "", msg |-> <<>>]

\* Phone.__init__
Phone(value) ==
    IF ~(isdigit(value) /\ Len(value) = 10)
    THEN [exc |-> "ValueError", msg |-> Lit("Phone number must be 10 digits")]
    ELSE [exc |-> "", msg |-> <<>>]

\* Birthday.__init__
Birthday(value) ==
    IF strptime(value).exc = "ValueError"
    THEN [exc |-> "ValueError", msg |-> Lit("Invalid date format. Use DD.MM.YYYY")]
    ELSE [exc |-> "", msg |-> <<>>]

----------------------------------------------------------------------------
(* Record: [name, phones, birthday]; birthday is <<>> (None) or <<value>> *)

NoRecord == [name |-> <<>>, phones |-> <<>>, birthday |-> <<>>]

\* Record.__init__
Record(name) ==
    IF Name(name).exc # "" THEN [exc |-> Name(name).exc, msg |-> Name(name).msg, rec |-> NoRecord]
    ELSE [exc |-> "", msg |-> <<>>, rec |-> [name |-> name, phones |-> <<>>, birthday |-> <<>>]]

\* a faulty variant: the new phone goes to the front of the list
Record_add_phone_front(rec, phone) ==
    IF Phone(phone).exc # "" THEN [exc |-> Phone(phone).exc, msg |-> Phone(phone).msg, rec |-> rec]
    ELSE [exc |-> "", msg |-> <<>>, rec |-> [rec EXCEPT !.phones = <<phone>> \o @]]

\* Record.add_phone
Record_add_phone(rec, phone) ==
    IF Phone(phone).exc # "" THEN [exc |-> Phone(phone).exc, msg |-> Phone(phone).msg, rec |-> rec]
    ELSE [exc |-> "", msg |-> <<>>, rec |-> [rec EXCEPT !.phones = Append(@, phone)]]

\* Record.remove_phone
Record_remove_phone(rec, phone) ==
    [rec EXCEPT !.phones = SelectSeq(@, LAMBDA p : p # phone)]

\* the place of the first phone of rec equal to phone, 0 when there is none
first_phone(rec, phone) ==
    IF \E i \in 1..Len(rec.phones) : rec.phones[i] = phone
    THEN CHOOSE k \in 1..Len(rec.phones) :
             rec.phones[k] = phone /\ \A j \in 1..(k - 1) : rec.phones[j] # phone
    ELSE 0

\* a faulty variant: the new phone is validated before the old one is looked for
Record_edit_phone_validate_first(rec, old_phone, new_phone) ==
    IF Phone(new_phone).exc # ""
    THEN [exc |-> Phone(new_phone).exc, msg |-> Phone(new_phone).msg, rec |-> rec]
    ELSE IF first_phone(rec, old_phone) # 0
    THEN [exc |-> "", msg |-> <<>>,
          rec |-> [rec EXCEPT !.phones[first_phone(rec, old_phone)] = new_phone]]
    ELSE [exc |-> "ValueError", msg |-> Lit("Phone number not found"), rec |-> rec]

\* Record.edit_phone
Record_edit_phone(rec, old_phone, new_phone) ==
    IF first_phone(rec, old_phone) # 0
    THEN IF Phone(new_phone).exc # ""
         THEN [exc |-> Phone(new_phone).exc, msg |-> Phone(new_phone).msg, rec |-> rec]
         ELSE [exc |-> "", msg |-> <<>>,
               rec |-> [rec EXCEPT !.phones[first_phone(rec, old_phone)] = new_phone]]
    ELSE [exc |-> "ValueError", msg |-> Lit("Phone number not found"), rec |-> rec]

\* Record.add_birthday
Record_add_birthday(rec, birthday) ==
    IF Birthday(birthday).exc # ""
    THEN [exc |-> Birthday(birthday).exc, msg |-> Birthday(birthday).msg, rec |-> rec]
    ELSE [exc |-> "", msg |-> <<>>, rec |-> [rec EXCEPT !.birthday = <<birthday>>]]

\* Record.__str__
Record_str(rec) ==
    Lit("Contact name: ") \o rec.name \o Lit(", Phones: ") \o join(Lit("; "), rec.phones)
        \o (IF rec.birthday # <<>> THEN Lit(", Birthday: ") \o rec.birthday[1] ELSE <<>>)

----------------------------------------------------------------------------
(* AddressBook: data is the sequence of [key, rec] in insertion order, the *)
(* keys distinct                                                           *)

KeyIndex(b, key) ==
    IF \E i \in 1..Len(b) : b[i].key = key THEN CHOOSE i \in 1..Len(b) : b[i].key = key ELSE 0

\* AddressBook.add_record: self.data[record.name.value] = record
AddressBook_add_record(b, rec) ==
    IF KeyIndex(b, rec.name) # 0
    THEN [b EXCEPT ![KeyIndex(b, rec.name)].rec = rec]
    ELSE Append(b, [key |-> rec.name, rec |-> rec])

\* AddressBook.find: the place of self.data.get(name.lower()), 0 for None
AddressBook_find(b, name) == KeyIndex(b, lower(name))

\* AddressBook.delete
AddressBook_delete(b, name) ==
    IF KeyIndex(b, name) # 0 THEN SelectSeq(b, LAMBDA e : e.key # name) ELSE b

\* a faulty variant: a weekend birthday moves two days on, Saturday or Sunday alike
congrats_day_plus_two(bday) ==
    IF weekday(bday) >= 5 THEN date_add(bday, 2) ELSE bday

\* the shift of a birthday on Saturday or Sunday to the Monday after it
congrats_day(bday) ==
    IF weekday(bday) >= 5 THEN date_add(bday, 7 - weekday(bday)) ELSE bday

NoEntry == [exc |-> "", msg |-> <<>>, val |-> <<>>]

\* lines 105-109: the entry of a birthday falling on bday, when within the week
upcoming_window(rec, bday, t) ==
    IF 0 <= toordinal(bday) - toordinal(t) /\ toordinal(bday) - toordinal(t) <= 7
    THEN [exc |-> "", msg |-> <<>>,
          val |-> <<[name |-> rec.name, birthday |-> strftime(congrats_day(bday))]>>]
    ELSE NoEntry

\* lines 103-104: a birthday already past this year moves to the next year
upcoming_rolled(rec, next, t) ==
    IF next.exc # "" THEN [exc |-> next.exc, msg |-> next.msg, val |-> <<>>]
    ELSE upcoming_window(rec, next.val, t)

\* line 102, then 103: this is the birthday with its year replaced by today's
upcoming_this_year(rec, this, t) ==
    IF this.exc # "" THEN [exc |-> this.exc, msg |-> this.msg, val |-> <<>>]
    ELSE IF toordinal(this.val) < toordinal(t)
         THEN upcoming_rolled(rec, date_replace_year(this.val, t[1] + 1), t)
         ELSE upcoming_window(rec, this.val, t)

upcoming_parsed(rec, parsed, t) ==
    IF parsed.exc # "" THEN [exc |-> parsed.exc, msg |-> <<>>, val |-> <<>>]
    ELSE upcoming_this_year(rec, date_replace_year(parsed.val, t[1]), t)

\* the body of the loop of get_upcoming_birthdays for one record: no entry or one
upcoming_entry(rec, t) ==
    IF rec.birthday = <<>> THEN NoEntry
    ELSE upcoming_parsed(rec, strptime(rec.birthday[1]), t)

\* the entry e of one record before the entries of the records after it
upcoming_append(e, rest) ==
    IF rest.exc # "" THEN rest ELSE [exc |-> "", msg |-> <<>>, val |-> e.val \o rest.val]

RECURSIVE upcoming_from(_, _, _)
upcoming_next(e, b, i, t) ==
    IF e.exc # "" THEN e ELSE upcoming_append(e, upcoming_from(b, i + 1, t))

upcoming_from(b, i, t) ==
    IF i > Len(b) THEN NoEntry ELSE upcoming_next(upcoming_entry(b[i].rec, t), b, i, t)

\* AddressBook.get_upcoming_birthdays, t being datetime.today().date()
AddressBook_get_upcoming_birthdays(b, t) == upcoming_from(b, 1, t)


----------------------------------------------------------------------------
(* The handlers.  A handler's body gives [exc, msg, val, book]: the value  *)
(* it returns or the exception it raises, and the address book it leaves.  *)

Return(val, b) == [exc |-> "", msg |-> <<>>, val |-> val, book |-> b]
Raise(exc, msg, b) == [exc |-> exc, msg |-> msg, val |-> <<>>, book |-> b]

\* a faulty variant: the decorator without its except ValueError clause
input_error_no_value_error(required_args, error_message, args, b, res) ==
    IF required_args > 0 /\ Len(args) < required_args
    THEN [raised |-> "ValueError", ret |-> <<>>, book |-> b]
    ELSE IF res.exc = "" THEN [raised |-> "", ret |-> res.val, book |-> res.book]
    ELSE [raised |-> res.exc, ret |-> <<>>, book |-> res.book]

\* input_error(required_args, error_message)(func)(args, book): res is what
\* func(args, book) does, looked at only when there are enough arguments
input_error(required_args, error_message, args, b, res) ==
    IF required_args > 0 /\ Len(args) < required_args
    THEN [raised |-> "", ret |-> error_message, book |-> b]
    ELSE IF res.exc = "" THEN [raised |-> "", ret |-> res.val, book |-> res.book]
    ELSE IF res.exc = "ValueError" THEN [raised |-> "", ret |-> res.msg, book |-> res.book]
    ELSE IF res.exc = "KeyError"
         THEN [raised |-> "", ret |-> Lit("This contact doesn't exist."), book |-> res.book]
    ELSE IF res.exc = "IndexError"
         THEN [raised |-> "",
               ret |-> Lit("Invalid input. Please provide the correct arguments."),
               book |-> res.book]
    ELSE IF res.exc = "TypeError"
         THEN [raised |-> "", ret |-> Lit("Invalid argument type provided."), book |-> res.book]
    ELSE [raised |-> res.exc, ret |-> <<>>, book |-> res.book]

\* lines 124-125: record.add_phone(phone) on the record at place at of b1
add_contact_phoned(b1, at, phoned, message) ==
    IF phoned.exc # "" THEN Raise(phoned.exc, phoned.msg, b1)
    ELSE Return(Lit(message), [b1 EXCEPT ![at].rec = phoned.rec])

add_contact_phone(b1, at, phone, message) ==
    add_contact_phoned(b1, at, Record_add_phone(b1[at].rec, phone), message)

\* lines 121-123: made is Record(name); the new record enters the book
\* before its phone is looked at
add_contact_new(args, b, made) ==
    IF made.exc # "" THEN Raise(made.exc, made.msg, b)
    ELSE add_contact_phone(AddressBook_add_record(b, made.rec),
                           KeyIndex(AddressBook_add_record(b, made.rec), args[1]),
                           args[2], "Contact added.")

\* a faulty variant: the book is not searched, every add makes a new record
add_contact_body_always_new(args, b) == add_contact_new(args, b, Record(args[1]))

add_contact_body(args, b) ==
    IF AddressBook_find(b, args[1]) = 0
    THEN add_contact_new(args, b, Record(args[1]))
    ELSE add_contact_phone(b, AddressBook_find(b, args[1]), args[2], "Contact updated.")

add_contact(args, b) ==
    input_error(2, Lit("Write name and phone, please"), args, b, add_contact_body(args, b))

change_contact_edited(b, found, edited) ==
    IF edited.exc # "" THEN Raise(edited.exc, edited.msg, b)
    ELSE Return(Lit("Phone number updated."), [b EXCEPT ![found].rec = edited.rec])

change_contact_found(args, b, found) ==
    IF found # 0
    THEN change_contact_edited(b, found, Record_edit_phone(b[found].rec, args[2], args[3]))
    ELSE Return(Lit("Contact not found."), b)

change_contact_body(args, b) == change_contact_found(args, b, AddressBook_find(b, args[1]))

change_contact(args, b) ==
    input_error(3, Lit("Write name, old phone, and new phone, please"), args, b,
                change_contact_body(args, b))

show_phone_found(b, found) ==
    IF found # 0 THEN Return(join(Lit(", "), b[found].rec.phones), b)
    ELSE Return(Lit("Contact not found."), b)

show_phone_body(args, b) == show_phone_found(b, AddressBook_find(b, args[1]))

show_phone(args, b) == input_error(1, Lit("Write name, please"), args, b, show_phone_body(args, b))

show_all_body(args, b) ==
    IF b = <<>> THEN Return(Lit("Address book is empty."), b)
    ELSE Return(join(Lit(NL), <<>> \o [i \in 1..Len(b) |-> Record_str(b[i].rec)]), b)

show_all(args, b) ==
    input_error(0, Lit("Invalid input. Please provide the correct arguments."), args, b,
                show_all_body(args, b))

add_birthday_set(b, found, set) ==
    IF set.exc # "" THEN Raise(set.exc, set.msg, b)
    ELSE Return(Lit("Birthday added."), [b EXCEPT ![found].rec = set.rec])

add_birthday_found(args, b, found) ==
    IF found # 0
    THEN add_birthday_set(b, found, Record_add_birthday(b[found].rec, args[2]))
    ELSE Return(Lit("Contact not found."), b)

add_birthday_body(args, b) == add_birthday_found(args, b, AddressBook_find(b, args[1]))

add_birthday(args, b) ==
    input_error(2, Lit("Write name and birthday, please"), args, b, add_birthday_body(args, b))

show_birthday_found(b, found) ==
    IF found # 0 /\ b[found].rec.birthday # <<>> THEN Return(b[found].rec.birthday[1], b)
    ELSE Return(Lit("No birthday found."), b)

show_birthday_body(args, b) == show_birthday_found(b, AddressBook_find(b, args[1]))

show_birthday(args, b) ==
    input_error(1, Lit("Write name, please"), args, b, show_birthday_body(args, b))

\* line 170: upcoming is what get_upcoming_birthdays returned or raised
birthdays_text(upcoming, b) ==
    IF upcoming.exc # "" THEN Raise(upcoming.exc, upcoming.msg, b)
    ELSE IF upcoming.val # <<>>
         THEN Return(join(Lit(NL), <<>> \o [i \in 1..Len(upcoming.val) |->
                         upcoming.val[i].name \o Lit(" - ") \o upcoming.val[i].birthday]), b)
         ELSE Return(Lit("No upcoming birthdays."), b)

\* birthdays(args, book), t being the date get_upcoming_birthdays reads
birthdays_body(args, b, t) == birthdays_text(AddressBook_get_upcoming_birthdays(b, t), b)

birthdays(args, b, t) ==
    input_error(0, Lit("Invalid input. Please provide the correct arguments."), args, b,
                birthdays_body(args, b, t))

parse_parts(parts) ==
    [command |-> lower(parts[1]),
     args    |-> IF Len(parts) > 1 THEN split_ws(lower(parts[2])) ELSE <<>>]

\* parse_input
parse_input(user_input) == parse_parts(split_space_1(strip(user_input)))

Chars(word) == CASE word = "close" -> <<"c", "l", "o", "s", "e">>
                 [] word = "exit" -> <<"e", "x", "i", "t">>
                 [] word = "hello" -> <<"h", "e", "l", "l", "o">>
                 [] word = "add" -> <<"a", "d", "d">>
                 [] word = "change" -> <<"c", "h", "a", "n", "g", "e">>
                 [] word = "phone" -> <<"p", "h", "o", "n", "e">>
                 [] word = "all" -> <<"a", "l", "l">>
                 [] word = "add-birthday" ->
                        <<"a", "d", "d", "-", "b", "i", "r", "t", "h", "d", "a", "y">>
                 [] word = "show-birthday" ->
                        <<"s", "h", "o", "w", "-", "b", "i", "r", "t", "h", "d", "a", "y">>
                 [] word = "birthdays" -> <<"b", "i", "r", "t", "h", "d", "a", "y", "s">>

CommandWords == {"close", "exit", "hello", "add", "change", "phone", "all",
                 "add-birthday", "show-birthday", "birthdays"}

StartsWith(s, prefix) == Len(s) >= Len(prefix) /\ SubSeq(s, 1, Len(prefix)) = prefix

\* a faulty variant: a command that begins with a command word takes that word's branch
main_branch_prefix(command) ==
    IF \E w \in CommandWords : StartsWith(command, Chars(w))
    THEN CHOOSE w \in CommandWords : StartsWith(command, Chars(w))
    ELSE ""

\* the branch of main()'s if/elif chain a command takes: the command's own
\* word, or "" for the final else
main_branch(command) ==
    IF \E w \in CommandWords : Chars(w) = command
    THEN CHOOSE w \in CommandWords : Chars(w) = command
    ELSE ""

\* print(handler(args, book)): call is what the decorated handler did
main_print(branch, call) ==
    IF call.raised # ""
    THEN [op |-> branch, out |-> <<>>, book |-> call.book, status |-> "crashed"]
    ELSE [op |-> branch, out |-> call.ret, book |-> call.book, status |-> "run"]

\* the if/elif chain of main()
main_dispatch(branch, args, b, t) ==
    IF branch \in {"close", "exit"}
    THEN [op |-> branch, out |-> Lit("Good bye!"), book |-> b, status |-> "exited"]
    ELSE IF branch = "hello"
    THEN [op |-> branch, out |-> Lit("How can I help you?"), book |-> b, status |-> "run"]
    ELSE IF branch = "add" THEN main_print(branch, add_contact(args, b))
    ELSE IF branch = "change" THEN main_print(branch, change_contact(args, b))
    ELSE IF branch = "phone" THEN main_print(branch, show_phone(args, b))
    ELSE IF branch = "all" THEN main_print(branch, show_all(args, b))
    ELSE IF branch = "add-birthday" THEN main_print(branch, add_birthday(args, b))
    ELSE IF branch = "show-birthday" THEN main_print(branch, show_birthday(args, b))
    ELSE IF branch = "birthdays" THEN main_print(branch, birthdays(args, b, t))
    ELSE [op |-> branch, out |-> Lit("Invalid command."), book |-> b, status |-> "run"]

\* one turn of main()'s loop after parse_input gave command and args, t being
\* today's date: what is printed, the book afterwards, and how the loop goes on
main_turn(command, args, b, t) == main_dispatch(main_branch(command), args, b, t)

----------------------------------------------------------------------------
(* Inputs *)

Bob    == <<"b", "o", "b">>
BobCap == <<"B", "o", "b">>
Al     == <<"a", "l">>

Phone1     == <<"0", "1", "2", "3", "4", "5", "6", "7", "8", "9">>
Phone2     == <<"9", "8", "7", "6", "5", "4", "3", "2", "1", "0">>
PhoneShort == <<"1", "2", "3">>
PhoneLong  == <<"0", "1", "2", "3", "4", "5", "6", "7", "8", "9", "0">>
PhoneAlpha == <<"0", "1", "2", "3", "4", "5", "6", "7", "8", "x">>
PhoneSup   == <<SUP2, SUP2, SUP2, SUP2, SUP2, SUP2, SUP2, SUP2, SUP2, SUP2>>

Date_12_06 == <<"1", "2", ".", "0", "6", ".", "1", "9", "9", "0">>
Date_15_06 == <<"1", "5", ".", "0", "6", ".", "1", "9", "9", "0">>
Date_16_06 == <<"1", "6", ".", "0", "6", ".", "2", "0", "0", "1">>
Date_18_06 == <<"1", "8", ".", "0", "6", ".", "1", "9", "8", "5">>
Date_01_01 == <<"0", "1", ".", "0", "1", ".", "1", "9", "9", "0">>
Date_31_12 == <<"3", "1", ".", "1", "2", ".", "1", "9", "9", "9">>
Date_28_02 == <<"2", "8", ".", "0", "2", ".", "1", "9", "9", "9">>
Date_29_02 == <<"2", "9", ".", "0", "2", ".", "2", "0", "0", "0">>
Date_01_03 == <<"0", "1", ".", "0", "3", ".", "2", "0", "0", "0">>
Date_1_6   == <<"1", ".", "6", ".", "2", "0", "0", "0">>
Date_31_06 == <<"3", "1", ".", "0", "6", ".", "2", "0", "0", "0">>
Date_Dash  == <<"1", "2", "-", "0", "6", "-", "1", "9", "9", "0">>

\* a line: the words with single spaces between them
Words(ws) == join(<<" ">>, ws)

\* the lines typed at the prompt in Spec
Lines ==
    { Chars(w) : w \in {"hello", "close", "birthdays", "add", "phone", "show-birthday"} }
    \cup { <<>>, <<"f", "o", "o">>,
           <<"E", "X", "I", "T">>,
           <<" ", "a", "l", "l", " ", "\t">>,
           <<"a", "d", "d", "\t">> \o Bob \o <<" ">> \o Phone1,
           <<"A", "d", "d", " ", " ">> \o Al \o <<" ", "\t">> \o Phone1 \o <<" ">>,
           Words(<<Bob, Phone1>>),
           Words(<<Chars("phone") \o <<"s">>, Bob>>) }
    \cup { Words(<<Chars("add"), Bob, p>>) : p \in {Phone1, Phone2, PhoneShort} }
    \cup { Words(<<Chars("add"), BobCap, Phone1>>), Words(<<Chars("add"), Al, PhoneAlpha>>) }
    \cup { Words(<<Chars("change"), Bob, p, q>>) : p \in {Phone1, Phone2}, q \in {Phone2, PhoneLong} }
    \cup { Words(<<Chars("change"), Al, Phone1, Phone2>>), Words(<<Chars("change"), Bob, Phone1>>) }
    \cup { Words(<<Chars("phone"), n>>) : n \in {Bob, BobCap, Al} }
    \cup { Words(<<Chars("add-birthday"), Bob, d>>) : d \in {Date_12_06, Date_31_06} }
    \cup { Words(<<Chars("add-birthday"), Al, Date_Dash>>), Words(<<Chars("add-birthday"), Bob>>) }
    \cup { Words(<<Chars("show-birthday"), n>>) : n \in {Bob, Al} }

\* the dates datetime.today() gives in Spec
Todays == { <<2024, 6, 10>> }

NoRet == [exc |-> "", msg |-> <<>>, val |-> <<>>]

\* the names whose add history is kept
NameKeys == {Bob, Al}

WithinBounds(b) == \A i \in 1..Len(b) : Len(b[i].rec.phones) <= MaxPhones

\* a phone as the specification defines it: exactly 10 decimal digits 0-9
TenDigits(s) == Len(s) = 10 /\ \A i \in 1..10 : s[i] \in AsciiDigits

\* the history of a turn: a successful add appends its phone to the history of
\* its name; any other add, change or add-birthday naming it ends the history
added_after(h, op, args) ==
    IF op \in {"add", "change", "add-birthday"} /\ Len(args) >= 1 /\ lower(args[1]) \in NameKeys
    THEN IF op = "add" /\ Len(args) >= 2 /\ TenDigits(args[2]) /\ h[lower(args[1])].only_add
         THEN [h EXCEPT ![lower(args[1])].phones = Append(@, args[2])]
         ELSE [h EXCEPT ![lower(args[1])] = [phones |-> <<>>, only_add |-> FALSE]]
    ELSE h

Init ==
    /\ book = <<>>
    /\ out = Lit("Welcome to the assistant bot!")
    /\ line = <<>>
    /\ last = [op |-> "start", args |-> <<>>]
    /\ today = NoDate
    /\ ret = NoRet
    /\ status = "run"
    /\ added = [k \in NameKeys |-> [phones |-> <<>>, only_add |-> TRUE]]

\* input("Enter a command: ").strip() and parse_input of it, for every line
\* of Lines: [line, command, args, branch]
Inputs ==
    { [line    |-> l,
       command |-> parse_input(strip(l)).command,
       args    |-> parse_input(strip(l)).args,
       branch  |-> main_branch(parse_input(strip(l)).command)] : l \in Lines }

\* the state after a turn that gave r
Turned(i, t, r) ==
    /\ WithinBounds(r.book)
    /\ book' = r.book
    /\ out' = r.out
    /\ status' = r.status
    /\ last' = [op |-> r.op, args |-> i.args]
    /\ today' = IF r.op = "birthdays" THEN t ELSE NoDate
    /\ ret' = IF r.op = "birthdays" THEN AddressBook_get_upcoming_birthdays(book, t) ELSE NoRet
    /\ added' = added_after(added, r.op, i.args)
    /\ line' = i.line

\* main(): one turn of the loop on the input i, read on the day t
Turn(i, t) == status = "run" /\ Turned(i, t, main_turn(i.command, i.args, book, t))

Hello == \E i \in Inputs : i.branch = "hello" /\ Turn(i, NoDate)
Add == \E i \in Inputs : i.branch = "add" /\ Turn(i, NoDate)
Change == \E i \in Inputs : i.branch = "change" /\ Turn(i, NoDate)
ShowPhone == \E i \in Inputs : i.branch = "phone" /\ Turn(i, NoDate)
ShowAll == \E i \in Inputs : i.branch = "all" /\ Turn(i, NoDate)
AddBirthday == \E i \in Inputs : i.branch = "add-birthday" /\ Turn(i, NoDate)
ShowBirthday == \E i \in Inputs : i.branch = "show-birthday" /\ Turn(i, NoDate)
Birthdays == \E i \in Inputs, t \in Todays : i.branch = "birthdays" /\ Turn(i, t)
Exit == \E i \in Inputs : i.branch \in {"close", "exit"} /\ Turn(i, NoDate)
InvalidCommand == \E i \in Inputs : i.branch = "" /\ Turn(i, NoDate)

Next ==
    \/ Hello
    \/ Add
    \/ Change
    \/ ShowPhone
    \/ ShowAll
    \/ AddBirthday
    \/ ShowBirthday
    \/ Birthdays
    \/ Exit
    \/ InvalidCommand

Spec == Init /\ [][Next]_vars

----------------------------------------------------------------------------
(* Properties of the command loop, under Spec *)

\* the places of the records of b whose name is name, letter case ignored
RecordsFor(b, name) == {i \in 1..Len(b) : lower(b[i].rec.name) = lower(name)}

PhonesOf(b, name) == b[CHOOSE i \in RecordsFor(b, name) : TRUE].rec.phones

\* what the command line made of the words ws prints on the book b
Printed(ws, b) ==
    main_turn(parse_input(strip(Words(ws))).command, parse_input(strip(Words(ws))).args,
              b, NoDate).out

\* C1: after the commands add <name> p1 ... add <name> pn with valid phones, and
\* no other add, change or add-birthday for that name, phone <name> prints
\* exactly p1, ..., pn joined by ", " in the order they were added, duplicates
\* kept, whatever commands for other names came in between.
C1_AddPhoneRoundTrip ==
    \A k \in NameKeys :
        (added[k].only_add /\ added[k].phones # <<>>)
            => Printed(<<Chars("phone"), k>>, book) = join(Lit(", "), added[k].phones)

C1_Witness ==
    /\ added[Bob].only_add
    /\ added[Bob].phones = <<Phone2, Phone1>>
    /\ Len(book) = 2
    /\ book[1].key = Al
    /\ last = [op |-> "phone", args |-> <<Bob>>]
    /\ out = Phone2 \o Lit(", ") \o Phone1

C5_DuplicateAdd ==
    [][(last'.op = "add" /\ Len(last'.args) >= 2 /\ TenDigits(last'.args[2]))
        => /\ (out' = Lit("Contact added.")) <=> (RecordsFor(book, last'.args[1]) = {})
           /\ (out' = Lit("Contact updated.")) <=> (RecordsFor(book, last'.args[1]) # {})
           /\ Cardinality(RecordsFor(book', last'.args[1])) = 1
           /\ PhonesOf(book', last'.args[1]) =
                  (IF RecordsFor(book, last'.args[1]) = {} THEN <<>>
                   ELSE PhonesOf(book, last'.args[1])) \o <<last'.args[2]>>]_vars

C5_Witness ==
    /\ last = [op |-> "add", args |-> <<Bob, Phone2>>]
    /\ out = Lit("Contact updated.")
    /\ Cardinality(RecordsFor(book, Bob)) = 1
    /\ PhonesOf(book, Bob) = <<Phone1, Phone2>>

\* the first word of a line, <<>> when the line holds none
FirstToken(l) == SubSeq(lstrip(l), 1, token_len(lstrip(l)))

CommandTokens == { Chars(w) : w \in CommandWords }

UnknownCommand(l) == lower(FirstToken(l)) \notin CommandTokens

\* C8: a line whose first token, letter case ignored, is none of the ten command
\* words prints exactly "Invalid command.", leaves the address book as it was,
\* and the loop goes on to the next input.
C8_UnknownCommand ==
    [][UnknownCommand(line')
        => (out' = Lit("Invalid command.") /\ book' = book /\ status' = "run")]_vars

C8_Witness ==
    /\ line = Words(<<Chars("phone") \o <<"s">>, Bob>>)
    /\ UnknownCommand(line)
    /\ book # <<>>
    /\ out = Lit("Invalid command.")
    /\ status = "run"

\* the messages a handler returns in place of its success message
ErrorMessages ==
    { Lit("Write name and phone, please"),
      Lit("Write name, old phone, and new phone, please"),
      Lit("Write name and birthday, please"),
      Lit("Write name, please"),
      Lit("Name can't be empty"),
      Lit("Phone number must be 10 digits"),
      Lit("Invalid date format. Use DD.MM.YYYY"),
      Lit("Phone number not found"),
      Lit("Contact not found."),
      Lit("No birthday found.") }

\* C10: a command that prints an error message instead of its success message
\* leaves the address book exactly as it was; in particular add <name> <phone>
\* with an invalid phone for a name not in the book creates no contact.
C10_FailedCommandAtomic ==
    [][(last'.op \in {"add", "change", "phone", "add-birthday", "show-birthday"}
          /\ out' \in ErrorMessages)
        => book' = book]_vars

----------------------------------------------------------------------------
(* get_upcoming_birthdays on every day of the years YearLo..YearLo+YearSpan: *)
(* SpecBday starts from the books that add and add-birthday build and asks   *)
(* for the upcoming birthdays once                                           *)

BobDates == {Date_12_06, Date_15_06, Date_16_06, Date_01_01, Date_31_12, Date_28_02,
             Date_29_02, Date_01_03, Date_1_6}
AlDates == {Date_15_06, Date_18_06}

\* the book after add <name> <phone> and, with a date d, add-birthday <name> <d>
WithContact(b, name, d) ==
    IF d = <<>> THEN add_contact(<<name, Phone1>>, b).book
    ELSE add_birthday(<<name, d>>, add_contact(<<name, Phone1>>, b).book).book

BdayBooks ==
    { WithContact(<<>>, Bob, d) : d \in BobDates \cup {<<>>} }
    \cup { WithContact(WithContact(<<>>, Bob, d1), Al, d2) :
               d1 \in BobDates \cup {<<>>}, d2 \in AlDates \cup {<<>>} }
    \cup { WithContact(WithContact(<<>>, Al, d2), Bob, d1) :
               d1 \in BobDates \cup {<<>>}, d2 \in AlDates \cup {<<>>} }

AllDays ==
    { dt \in (YearLo..(YearLo + YearSpan)) \X (1..12) \X (1..31) : IsDate(dt[1], dt[2], dt[3]) }

BirthdaysInput == CHOOSE i \in Inputs : i.line = Chars("birthdays")

InitBday ==
    /\ book \in BdayBooks
    /\ out = Lit("Welcome to the assistant bot!")
    /\ line = <<>>
    /\ last = [op |-> "start", args |-> <<>>]
    /\ today = NoDate
    /\ ret = NoRet
    /\ status = "run"
    /\ added = [k \in NameKeys |-> [phones |-> <<>>, only_add |-> FALSE]]

\* the command birthdays, typed on the day t
BdayBirthdays == last.op = "start" /\ \E t \in AllDays : Turn(BirthdaysInput, t)

NextBday == BdayBirthdays

SpecBday == InitBday /\ [][NextBday]_vars

\* the day after dt
NextDay(dt) ==
    IF dt[3] < DaysInMonth(dt[1], dt[2]) THEN <<dt[1], dt[2], dt[3] + 1>>
    ELSE IF dt[2] < 12 THEN <<dt[1], dt[2] + 1, 1>>
    ELSE <<dt[1] + 1, 1, 1>>

RECURSIVE DayAfter(_, _)
DayAfter(dt, k) == IF k = 0 THEN dt ELSE DayAfter(NextDay(dt), k - 1)

\* the days 0 to 7 days after t on which the birthday value falls: none or one
Occurrences(value, t) ==
    { x \in { DayAfter(t, k) : k \in 0..7 } :
        x[2] = strptime(value).val[2] /\ x[3] = strptime(value).val[3] }

\* the day of the week by the calendar formula: 0 Sunday, ..., 6 Saturday
MonthOffset == <<0, 3, 2, 5, 0, 3, 5, 1, 4, 6, 2, 4>>
YearOf(dt) == IF dt[2] < 3 THEN dt[1] - 1 ELSE dt[1]
DayOfWeek(dt) ==
    (YearOf(dt) + YearOf(dt) \div 4 - YearOf(dt) \div 100 + YearOf(dt) \div 400
        + MonthOffset[dt[2]] + dt[3]) % 7

\* the names of the records of b with a birthday in the week from t, in order
ExpectedNames(b, t) ==
    <<>> \o [i \in 1..Len(SelectSeq(b, LAMBDA e :
                 e.rec.birthday # <<>> /\ Occurrences(e.rec.birthday[1], t) # {})) |->
             SelectSeq(b, LAMBDA e :
                 e.rec.birthday # <<>> /\ Occurrences(e.rec.birthday[1], t) # {})[i].rec.name]

ReturnedNames(r) == <<>> \o [i \in 1..Len(r.val) |-> r.val[i].name]

\* C3: for every today and every book with valid birthdays (29 February
\* included, in leap and non-leap years), get_upcoming_birthdays returns one
\* entry per record, in insertion order, for exactly the records whose next
\* birthday lies 0 to 7 days after today; the other records give no entry.
C3_UpcomingWindow ==
    last.op = "birthdays" => (ret.exc = "" /\ ReturnedNames(ret) = ExpectedNames(book, today))

HasFeb29(b) ==
    \E i \in 1..Len(b) :
        b[i].rec.birthday # <<>> /\ strptime(b[i].rec.birthday[1]).val[2] = 2
            /\ strptime(b[i].rec.birthday[1]).val[3] = 29

\* the same for the books that hold no birthday on 29 February
C3_WithoutFeb29 ==
    (last.op = "birthdays" /\ ~HasFeb29(book))
        => (ret.exc = "" /\ ReturnedNames(ret) = ExpectedNames(book, today))

\* get_upcoming_birthdays raises only for a birthday on 29 February
C3_RaisesOnlyFeb29 == (last.op = "birthdays" /\ ret.exc # "") => HasFeb29(book)

BirthdayOf(b, name) == b[CHOOSE i \in 1..Len(b) : b[i].rec.name = name].rec.birthday[1]

\* the day to congratulate on for a birthday falling on occ
ShiftedDay(occ) ==
    IF DayOfWeek(occ) = 6 THEN DayAfter(occ, 2)
    ELSE IF DayOfWeek(occ) = 0 THEN DayAfter(occ, 1)
    ELSE occ

EntryShifted(e, b, t) ==
    /\ Occurrences(BirthdayOf(b, e.name), t) # {}
    /\ Len(e.birthday) = 10
    /\ strptime(e.birthday).exc = ""
    /\ DayOfWeek(strptime(e.birthday).val) \notin {0, 6}
    /\ strptime(e.birthday).val =
           ShiftedDay(CHOOSE x \in Occurrences(BirthdayOf(b, e.name), t) : TRUE)
    /\ (t = <<2024, 6, 10>> /\ BirthdayOf(b, e.name) = Date_12_06)
           => e.birthday = <<"1", "2", ".", "0", "6", ".", "2", "0", "2", "4">>
    /\ (t = <<2024, 6, 10>> /\ BirthdayOf(b, e.name) = Date_15_06)
           => e.birthday = <<"1", "7", ".", "0", "6", ".", "2", "0", "2", "4">>

\* C4: every entry get_upcoming_birthdays returns carries the birthday's date
\* when that is Monday to Friday, and the Monday after it when it is a Saturday
\* (+2 days) or a Sunday (+1 day); no emitted date is a Saturday or a Sunday.
C4_WeekendShift ==
    (last.op = "birthdays" /\ ret.exc = "")
        => \A i \in 1..Len(ret.val) : EntryShifted(ret.val[i], book, today)

C4_Witness ==
    /\ last.op = "birthdays"
    /\ today = <<2024, 6, 10>>
    /\ ret.exc = ""
    /\ Len(ret.val) = 2
    /\ ret.val[1] = [name |-> Al, birthday |-> <<"1", "7", ".", "0", "6", ".", "2", "0", "2", "4">>]
    /\ ret.val[2] = [name |-> Bob, birthday |-> <<"1", "7", ".", "0", "6", ".", "2", "0", "2", "4">>]
    /\ BirthdayOf(book, Bob) = Date_16_06
    /\ BirthdayOf(book, Al) = Date_15_06

----------------------------------------------------------------------------
(* The handlers and the methods of AddressBook and Record called directly,  *)
(* with names and arguments as given (no parse_input before them): SpecApi  *)

Empty == <<>>

AddContactArgs == { <<>>, <<Bob>>, <<Bob, Phone1>>, <<Bob, PhoneSup>>, <<Bob, PhoneShort>>,
                    <<BobCap, Phone1>>, <<Empty, Phone1>>, <<Bob, Phone1, Phone1>> }
ChangeContactArgs == { <<Bob, Phone1>>, <<Bob, Phone1, PhoneSup>>, <<Bob, PhoneSup, PhoneShort>>,
                       <<BobCap, PhoneSup, Phone1>> }
ShowPhoneArgs == { <<>>, <<BobCap>>, <<Empty>> }
AddBirthdayArgs == { <<Bob>>, <<BobCap, Date_12_06>>, <<Bob, Date_29_02>>, <<Bob, Date_31_06>>,
                     <<Bob, Empty>> }
ShowBirthdayArgs == { <<>>, <<Bob>> }
\* the days datetime.today() gives the direct calls of birthdays
ApiTodays == { <<2024, 6, 10>>, <<2023, 2, 25>> }

\* the state after the handler op, called with args, did r
Called(op, args, r, t) ==
    /\ WithinBounds(r.book)
    /\ book' = r.book
    /\ out' = r.ret
    /\ status' = IF r.raised # "" THEN "crashed" ELSE "run"
    /\ last' = [op |-> op, args |-> args]
    /\ today' = t
    /\ ret' = IF op = "birthdays" THEN AddressBook_get_upcoming_birthdays(book, t) ELSE NoRet
    /\ UNCHANGED <<line, added>>

\* the state after a method that returns None left the book b
Stored(op, args, b) ==
    /\ book' = b
    /\ out' = <<>>
    /\ last' = [op |-> op, args |-> args]
    /\ today' = NoDate
    /\ ret' = NoRet
    /\ UNCHANGED <<status, line, added>>

ApiAddContact ==
    status = "run" /\ \E a \in AddContactArgs : Called("add_contact", a, add_contact(a, book), NoDate)
ApiChangeContact ==
    status = "run"
        /\ \E a \in ChangeContactArgs : Called("change_contact", a, change_contact(a, book), NoDate)
ApiShowPhone ==
    status = "run" /\ \E a \in ShowPhoneArgs : Called("show_phone", a, show_phone(a, book), NoDate)
ApiShowAll == status = "run" /\ Called("show_all", <<>>, show_all(<<>>, book), NoDate)
ApiAddBirthday ==
    status = "run"
        /\ \E a \in AddBirthdayArgs : Called("add_birthday", a, add_birthday(a, book), NoDate)
ApiShowBirthday ==
    status = "run"
        /\ \E a \in ShowBirthdayArgs : Called("show_birthday", a, show_birthday(a, book), NoDate)
ApiBirthdays ==
    status = "run" /\ \E t \in ApiTodays : Called("birthdays", <<>>, birthdays(<<>>, book, t), t)

\* book.add_record(Record(name))
ApiAddRecord ==
    status = "run"
        /\ \E n \in {Bob, BobCap} :
               Stored("add_record", <<n>>, AddressBook_add_record(book, Record(n).rec))
\* book.delete(name)
ApiDelete ==
    status = "run" /\ \E n \in {Bob, BobCap} : Stored("delete", <<n>>, AddressBook_delete(book, n))
\* record.remove_phone(phone) on a record of the book
ApiRemovePhone ==
    status = "run"
        /\ \E i \in 1..Len(book) :
               Stored("remove_phone", <<Phone1>>,
                      [book EXCEPT ![i].rec = Record_remove_phone(@, Phone1)])

NextApi ==
    \/ ApiAddContact
    \/ ApiChangeContact
    \/ ApiShowPhone
    \/ ApiShowAll
    \/ ApiAddBirthday
    \/ ApiShowBirthday
    \/ ApiBirthdays
    \/ ApiAddRecord
    \/ ApiDelete
    \/ ApiRemovePhone

SpecApi == Init /\ [][NextApi]_vars

\* C6: after any add_record calls and add handler calls with names of any
\* letter casing the book holds at most one record per name, case ignored:
\* every key is the lowercase name, and find returns the record stored under
\* one casing of a name for every other casing of it.
C6_KeysIgnoreCase ==
    /\ \A i \in 1..Len(book) : book[i].key = lower(book[i].key)
    /\ \A i, j \in 1..Len(book) : lower(book[i].key) = lower(book[j].key) => i = j
    /\ \A i \in 1..Len(book) : \A n \in {Bob, BobCap} :
           lower(n) = lower(book[i].key) => AddressBook_find(book, n) = i

HandlerNames == {"add_contact", "change_contact", "show_phone", "show_all", "add_birthday",
                 "show_birthday", "birthdays"}

LineCount(text) == 1 + Cardinality({i \in 1..Len(text) : text[i] = NL})

AtLeastOne(n) == IF n < 1 THEN 1 ELSE n

\* C7 as stated: no error leaves a handler; each of the seven handlers, for
\* every argument list and every reachable book, returns a one-line string.
C7_AsStated ==
    /\ status # "crashed"
    /\ last.op \in HandlerNames => LineCount(out) = 1

\* C7 amended: no error leaves a handler; each of the seven handlers returns a
\* string, of one line for add, change, phone, add-birthday and show-birthday
\* and for every error message (the arguments holding no line break), while
\* all returns one line per record and birthdays one line per upcoming entry,
\* joined by newlines.
C7_HandlersReturn ==
    /\ status # "crashed"
    /\ last.op \in HandlerNames \ {"show_all", "birthdays"} => LineCount(out) = 1
    /\ last.op = "show_all" => LineCount(out) = AtLeastOne(Len(book))
    /\ last.op = "birthdays"
           => LineCount(out) = (IF ret.exc = "" THEN AtLeastOne(Len(ret.val)) ELSE 1)
    /\ out \in ErrorMessages => LineCount(out) = 1

C7_Witness ==
    /\ last.op = "show_all"
    /\ Len(book) = 2
    /\ LineCount(out) = 2
    /\ status = "run"

\* C9: every phone held by every record is a string of exactly 10 characters,
\* all of them decimal digits 0-9, in every state add, change, remove_phone and
\* add-birthday can reach.
C9_StoredPhones ==
    \A i \in 1..Len(book) : \A j \in 1..Len(book[i].rec.phones) : TenDigits(book[i].rec.phones[j])

====
